---- MODULE Spec2Model ----
(***************************************************************************)
(* Model of the Game View (frontend/app/page.tsx, component Home) and of   *)
(* the DM Service Client (lib/gameClient) of ai-dungeon-master.            *)
(*                                                                         *)
(* The React state of Home is the state of the machine; every user event   *)
(* and every continuation of an awaited network call or of audio playback  *)
(* is one action.  A nullable value is modelled as a sequence of length at *)
(* most one: Null is the empty sequence, Some(v) holds v.                  *)
(***************************************************************************)
EXTENDS Bags, FiniteSets, Integers, Sequences, TLC

VARIABLES
  gameState,     \* useState<GameState | null>
  dmResponse,    \* useState<DMResponse | null>
  loading,       \* useState(false)
  audioPlaying,  \* useState(false)
  error,         \* useState<string | null>
  customAction,  \* useState("")
  playerName,    \* useState("")
  playerClass,   \* useState("Rogue")
  audioEl,       \* the <audio> element behind audioRef: "paused" or "playing"
  dmInFlight,    \* bag of POST /api/dm requests awaiting their response
  voiceInFlight, \* bag of POST /api/voice requests awaiting their response
  sessions,      \* the number of adventures started so far
  gameOverSeen,  \* a response with game_over = true was displayed since the last reset
  last,          \* the operation that produced this state, with its request and response
  calls          \* the calls of gameClient made so far, each with its requests and outcome

vars == <<gameState, dmResponse, loading, audioPlaying, error, customAction,
          playerName, playerClass, audioEl, dmInFlight, voiceInFlight,
          sessions, gameOverSeen, last, calls>>

----------------------------------------------------------------------------
(* Bounds of the model *)

MaxTurns == 2       \* actions are submitted only while turn_count < MaxTurns
MaxInFlight == 2    \* a request is issued only while fewer are in flight
MaxHp == 25         \* a response is taken only while hp + hp_delta <= MaxHp
MaxSessions == 2    \* an adventure is started only while fewer were started
MaxInv == 3         \* a response is taken only while the inventory stays this short
MaxCalls == 3       \* an operation of gameClient is called only while fewer calls were made

(* Program constants *)

InitialHp == 20
HpCeiling == 20

----------------------------------------------------------------------------
(* Nullable values *)

Null == <<>>
Some(v) == <<v>>
Val(o) == o[1]

Max(a, b) == IF a >= b THEN a ELSE b

Includes(seq, item) == \E i \in 1..Len(seq) : seq[i] = item

----------------------------------------------------------------------------
(* Inputs: what the player can type and what the backends can answer *)

Names == {"", "Ann"}
Classes == {"Rogue", "Wizard"}
CustomTexts == {"", "Look around"}

SuggestedActions == <<"Attack", "Flee", "Talk">>

\* a response of POST /api/dm whose state_updates record is absent
Missing == [missing |-> TRUE]

Delta(hp, add, rem, loc, scene) ==
  [hp_delta |-> hp, inventory_add |-> add, inventory_remove |-> rem,
   location |-> loc, last_scene |-> scene]

StateUpdatesPool ==
  { Delta(5, <<"Torch">>, <<>>, "", ""),
    Delta(-25, <<>>, <<"Torch">>, "Cave", "Fell into a cave"),
    Missing }

DMResponses ==
  [dm_narration : {"", "You wake up."},
   suggested_actions : {SuggestedActions},
   state_updates : StateUpdatesPool,
   game_over : BOOLEAN]

\* the deltas of the inventory and scene checks
InventoryDeltas ==
  { Delta(-2, add, rem, loc, scene) :
      add \in {<<>>, <<"Shield">>, <<"Sword", "Torch">>},
      rem \in {<<>>, <<"Sword">>, <<"Shield">>},
      loc \in {"", "Cave"},
      scene \in {"", "Fell into a cave"} }

InventoryResponses ==
  [dm_narration : {"You wake up."},
   suggested_actions : {SuggestedActions},
   state_updates : InventoryDeltas,
   game_over : {FALSE}]

TransportFailures == {"timeout of 60000ms exceeded"}

----------------------------------------------------------------------------
(* lib/gameClient: the failure each operation throws.  A message is the pair
   of its fixed prefix and the cause appended to it. *)

DMFailure(cause) == <<"Failed to get DM response: ", cause>>
VoiceFailure(cause) == <<"Failed to get voice narration: ", cause>>
TypeErrorMessage == <<"Cannot read properties of undefined", "">>

DMRequest(state, playerAction) == [state |-> state, player_action |-> playerAction]
VoiceRequest(text) == [text |-> text]

InFlight == BagCardinality(dmInFlight) + BagCardinality(voiceInFlight)

----------------------------------------------------------------------------
(* getDMResponse, lines 48-60: the state update *)

UpdatedHp(state, su) == Max(0, state.hp + su.hp_delta)

\* a variant that removes after adding, so that a removed item never survives
UpdatedInventoryRemoveLast(state, su) ==
  SelectSeq(state.inventory \o su.inventory_add,
            LAMBDA item : ~Includes(su.inventory_remove, item))

\* a variant that removes by position, splice(indexOf(item), 1): for an item
\* that is not held the position is -1 and the last item goes
UpdatedInventorySplice(state, su) ==
  LET kept == SelectSeq(state.inventory, LAMBDA item : ~Includes(su.inventory_remove, item))
      absent == \E i \in 1..Len(su.inventory_remove) :
                  ~Includes(state.inventory, su.inventory_remove[i])
  IN (IF absent /\ kept # <<>> THEN SubSeq(kept, 1, Len(kept) - 1) ELSE kept)
       \o su.inventory_add

UpdatedInventory(state, su) ==
  SelectSeq(state.inventory, LAMBDA item : ~Includes(su.inventory_remove, item))
    \o su.inventory_add

\* a variant that takes the delta's location even when it is empty
UpdatedLocationAlways(state, su) == su.location

UpdatedLocation(state, su) ==
  IF su.location # "" THEN su.location ELSE state.location

UpdatedLastScene(state, su) ==
  IF su.last_scene # "" THEN su.last_scene ELSE state.last_scene

UpdatedTurnCount(state) == state.turn_count + 1

updatedState(state, su) ==
  [state EXCEPT !.hp = UpdatedHp(state, su),
                !.inventory = UpdatedInventory(state, su),
                !.location = UpdatedLocation(state, su),
                !.last_scene = UpdatedLastScene(state, su),
                !.turn_count = UpdatedTurnCount(state)]

----------------------------------------------------------------------------
(* What the rendered view offers *)

GameViewShown == gameState # Null
\* a variant that also hides the action panels of a player whose hp is 0
ActionPanelsShownAlive ==
  /\ gameState # Null /\ dmResponse # Null
  /\ ~Val(dmResponse).game_over
  /\ Val(gameState).hp > 0

ActionPanelsShown == GameViewShown /\ dmResponse # Null /\ ~Val(dmResponse).game_over
ControlsEnabled == ActionPanelsShown /\ ~(loading \/ audioPlaying)
GameOverPanelShown == GameViewShown /\ dmResponse # Null /\ Val(dmResponse).game_over
ErrorShown == error # Null /\ (GameViewShown => ~loading)

Op(name, req, resp) == [op |-> name, req |-> req, resp |-> resp]

----------------------------------------------------------------------------
Init ==
  /\ gameState = Null
  /\ dmResponse = Null
  /\ loading = FALSE
  /\ audioPlaying = FALSE
  /\ error = Null
  /\ customAction = ""
  /\ playerName = ""
  /\ playerClass = "Rogue"
  /\ audioEl = "paused"
  /\ dmInFlight = EmptyBag
  /\ voiceInFlight = EmptyBag
  /\ sessions = 0
  /\ gameOverSeen = FALSE
  /\ last = Op("init", Null, Null)
  /\ calls = <<>>

\* generateCampaignSeed: the n-th adventure draws the n-th random seed
generateCampaignSeed(n) == <<"seed", n>>

\* a variant that counts the construction of the state as a turn
newStateCountsTurn(seed, playerName_, playerClass_) ==
  [campaign_seed |-> seed,
   player_name |-> IF playerName_ # "" THEN playerName_ ELSE "Adventurer",
   player_class |-> playerClass_,
   inventory |-> <<>>,
   hp |-> InitialHp,
   location |-> "Starting Point",
   last_scene |-> "",
   turn_count |-> 1]

newState(seed, playerName_, playerClass_) ==
  [campaign_seed |-> seed,
   player_name |-> IF playerName_ # "" THEN playerName_ ELSE "Adventurer",
   player_class |-> playerClass_,
   inventory |-> <<>>,
   hp |-> InitialHp,
   location |-> "Starting Point",
   last_scene |-> "",
   turn_count |-> 0]

(* The player fills in the form of the start screen (setPlayerName,
   setPlayerClass) and presses Start Adventure: startAdventure, with the opening
   of getDMResponse up to its await.  The two form fields are read by
   startAdventure only and cleared by resetGame, so entering them is folded
   into the step that reads them. *)
startAdventure(name, class) ==
  /\ ~GameViewShown
  /\ playerName' = name /\ playerClass' = class
  /\ InFlight < MaxInFlight
  /\ sessions < MaxSessions
  /\ sessions' = sessions + 1
  /\ LET fresh == newState(generateCampaignSeed(sessions + 1), name, class)
     IN /\ gameState' = Some(fresh)
        /\ dmInFlight' = dmInFlight (+) SetToBag({DMRequest(fresh, Null)})
        /\ last' = Op("startAdventure", Some(DMRequest(fresh, Null)), Null)
  /\ error' = Null
  /\ loading' = TRUE
  /\ UNCHANGED <<dmResponse, audioPlaying, customAction, audioEl, voiceInFlight,
                 gameOverSeen, calls>>

(* the custom action input *)
setCustomAction(text) ==
  /\ ControlsEnabled
  /\ customAction' = text
  /\ last' = Op("setCustomAction", Null, Null)
  /\ UNCHANGED <<gameState, dmResponse, loading, audioPlaying, error,
                 playerName, playerClass, audioEl, dmInFlight, voiceInFlight, sessions, gameOverSeen, calls>>

(* handleAction, with the opening of getDMResponse up to its await *)
handleAction(action) ==
  /\ ControlsEnabled
  /\ Val(gameState).turn_count < MaxTurns
  /\ InFlight < MaxInFlight
  /\ customAction' = ""
  /\ loading' = TRUE
  /\ error' = Null
  /\ dmInFlight' = dmInFlight (+) SetToBag({DMRequest(Val(gameState), Some(action))})
  /\ last' = Op("handleAction", Some(DMRequest(Val(gameState), Some(action))), Null)
  /\ UNCHANGED <<gameState, dmResponse, audioPlaying, playerName, playerClass,
                 audioEl, voiceInFlight, sessions, gameOverSeen, calls>>

SubmitSuggested(idx) ==
  /\ dmResponse # Null
  /\ handleAction(Val(dmResponse).suggested_actions[idx])

SubmitCustom ==
  /\ customAction # ""
  /\ handleAction(customAction)

\* a variant that sends no voice request for a response with game_over = true
getDMResponseResolvedSilentGameOver(req, response) ==
  /\ BagIn(req, dmInFlight)
  /\ dmResponse' = Some(response)
  /\ IF response.state_updates = Missing
       THEN /\ error' = Some(TypeErrorMessage)
            /\ loading' = FALSE
            /\ dmInFlight' = dmInFlight (-) SetToBag({req})
            /\ last' = Op("dmMalformed", Some(req), Some(response))
            /\ UNCHANGED <<gameState, audioPlaying, audioEl, voiceInFlight>>
       ELSE /\ req.state.hp + response.state_updates.hp_delta <= MaxHp
            /\ Len(UpdatedInventory(req.state, response.state_updates)) <= MaxInv
            /\ gameState' = Some(updatedState(req.state, response.state_updates))
            /\ dmInFlight' = dmInFlight (-) SetToBag({req})
            /\ voiceInFlight' =
                 IF response.dm_narration # "" /\ ~response.game_over
                   THEN voiceInFlight (+) SetToBag({VoiceRequest(response.dm_narration)})
                   ELSE voiceInFlight
            /\ last' = Op("dmResponded", Some(req), Some(response))
            /\ UNCHANGED <<loading, audioPlaying, error, audioEl>>
  /\ gameOverSeen' = (gameOverSeen \/ response.game_over)
  /\ UNCHANGED calls
  /\ UNCHANGED <<customAction, playerName, playerClass, sessions>>

(* getDMResponse after its await, the call having returned `response` *)
getDMResponseResolved(req, response) ==
  /\ BagIn(req, dmInFlight)
  /\ dmResponse' = Some(response)
  /\ IF response.state_updates = Missing
       THEN \* reading state_updates.hp_delta throws: the catch block runs
            /\ error' = Some(TypeErrorMessage)
            /\ loading' = FALSE
            /\ dmInFlight' = dmInFlight (-) SetToBag({req})
            /\ last' = Op("dmMalformed", Some(req), Some(response))
            /\ UNCHANGED <<gameState, audioPlaying, audioEl, voiceInFlight>>
       ELSE /\ req.state.hp + response.state_updates.hp_delta <= MaxHp
            /\ Len(UpdatedInventory(req.state, response.state_updates)) <= MaxInv
            /\ gameState' = Some(updatedState(req.state, response.state_updates))
            /\ dmInFlight' = dmInFlight (-) SetToBag({req})
            /\ voiceInFlight' =
                 IF response.dm_narration # ""
                   THEN voiceInFlight (+) SetToBag({VoiceRequest(response.dm_narration)})
                   ELSE voiceInFlight
            /\ last' = Op("dmResponded", Some(req), Some(response))
            /\ UNCHANGED <<loading, audioPlaying, error, audioEl>>
  /\ gameOverSeen' = (gameOverSeen \/ response.game_over)
  /\ UNCHANGED calls
  /\ UNCHANGED <<customAction, playerName, playerClass, sessions>>

\* a variant whose catch block sets the error and leaves loading as it is
getDMResponseRejectedKeepsLoading(req, cause) ==
  /\ BagIn(req, dmInFlight)
  /\ dmInFlight' = dmInFlight (-) SetToBag({req})
  /\ error' = Some(DMFailure(cause))
  /\ last' = Op("dmFailed", Null, Null)
  /\ UNCHANGED <<gameState, dmResponse, loading, audioPlaying, customAction, playerName,
                 playerClass, audioEl, voiceInFlight, sessions, gameOverSeen, calls>>

(* getDMResponse after its await, the call having thrown *)
getDMResponseRejected(req, cause) ==
  /\ BagIn(req, dmInFlight)
  /\ dmInFlight' = dmInFlight (-) SetToBag({req})
  /\ error' = Some(DMFailure(cause))
  /\ loading' = FALSE
  /\ last' = Op("dmFailed", Null, Null)
  /\ UNCHANGED <<gameState, dmResponse, audioPlaying, customAction, playerName,
                 playerClass, audioEl, voiceInFlight, sessions, gameOverSeen, calls>>

(* playNarration after its await, the call having returned *)
playNarrationResolved(req) ==
  /\ BagIn(req, voiceInFlight)
  /\ voiceInFlight' = voiceInFlight (-) SetToBag({req})
  /\ IF GameViewShown   \* audioRef.current is the mounted <audio> element
       THEN audioPlaying' = TRUE /\ audioEl' = "playing"
       ELSE UNCHANGED <<audioPlaying, audioEl>>
  /\ last' = Op("voiceResponded", Null, Null)
  /\ UNCHANGED <<gameState, dmResponse, loading, error, customAction, playerName,
                 playerClass, dmInFlight, sessions, gameOverSeen, calls>>

\* a variant whose catch block sets the error and leaves loading as it is
playNarrationRejectedKeepsLoading(req, cause) ==
  /\ BagIn(req, voiceInFlight)
  /\ voiceInFlight' = voiceInFlight (-) SetToBag({req})
  /\ error' = Some(VoiceFailure(cause))
  /\ last' = Op("voiceFailed", Null, Null)
  /\ UNCHANGED <<gameState, dmResponse, loading, audioPlaying, customAction, playerName,
                 playerClass, audioEl, dmInFlight, sessions, gameOverSeen, calls>>

(* playNarration after its await, the call having thrown *)
playNarrationRejected(req, cause) ==
  /\ BagIn(req, voiceInFlight)
  /\ voiceInFlight' = voiceInFlight (-) SetToBag({req})
  /\ error' = Some(VoiceFailure(cause))
  /\ loading' = FALSE
  /\ last' = Op("voiceFailed", Null, Null)
  /\ UNCHANGED <<gameState, dmResponse, audioPlaying, customAction, playerName,
                 playerClass, audioEl, dmInFlight, sessions, gameOverSeen, calls>>

(* the onended handler installed by playNarration *)
onended ==
  /\ audioEl = "playing"
  /\ audioEl' = "paused"
  /\ audioPlaying' = FALSE
  /\ loading' = FALSE
  /\ last' = Op("audioEnded", Null, Null)
  /\ UNCHANGED <<gameState, dmResponse, error, customAction, playerName, playerClass,
                 dmInFlight, voiceInFlight, sessions, gameOverSeen, calls>>

\* a variant that stops the playback and leaves loading as it is
skipAudioKeepsLoading ==
  /\ GameViewShown /\ audioPlaying
  /\ audioEl' = "paused"
  /\ audioPlaying' = FALSE
  /\ last' = Op("skipAudio", Null, Null)
  /\ UNCHANGED <<gameState, dmResponse, loading, error, customAction, playerName,
                 playerClass, dmInFlight, voiceInFlight, sessions, gameOverSeen, calls>>

skipAudio ==
  /\ GameViewShown /\ audioPlaying
  /\ audioEl' = "paused"
  /\ audioPlaying' = FALSE
  /\ loading' = FALSE
  /\ last' = Op("skipAudio", Null, Null)
  /\ UNCHANGED <<gameState, dmResponse, error, customAction, playerName, playerClass,
                 dmInFlight, voiceInFlight, sessions, gameOverSeen, calls>>

(* the Dismiss button of the error display *)
DismissError ==
  /\ GameViewShown /\ error # Null /\ ~loading
  /\ error' = Null
  /\ last' = Op("dismissError", Null, Null)
  /\ UNCHANGED <<gameState, dmResponse, loading, audioPlaying, customAction, playerName,
                 playerClass, audioEl, dmInFlight, voiceInFlight, sessions, gameOverSeen, calls>>

(* resetGame; the game view and with it the <audio> element are unmounted *)
resetGame ==
  /\ GameViewShown
  /\ gameState' = Null
  /\ dmResponse' = Null
  /\ customAction' = ""
  /\ error' = Null
  /\ playerName' = ""
  /\ playerClass' = "Rogue"
  /\ audioEl' = "paused"
  /\ last' = Op("resetGame", Null, Null)
  /\ gameOverSeen' = FALSE
  /\ UNCHANGED calls
  /\ UNCHANGED <<loading, audioPlaying, dmInFlight, voiceInFlight, sessions>>

----------------------------------------------------------------------------
(* gameClient: each operation is one try block around one awaited axios call *)

pageVars == <<gameState, dmResponse, loading, audioPlaying, error, customAction,
              playerName, playerClass, audioEl, dmInFlight, voiceInFlight,
              sessions, gameOverSeen, last>>

ClientOps == {"getDMResponse", "getVoiceNarration", "getGameStart"}

HttpRequest(method, url, body) == [method |-> method, url |-> url, body |-> body]

\* the HTTP requests an operation can be called to send
ClientRequests(op) ==
  CASE op = "getDMResponse" ->
         {HttpRequest("POST", "/api/dm",
                      Some(DMRequest(newState(generateCampaignSeed(1), "", "Rogue"), a))) :
            a \in {Null, Some("Attack")}}
    [] op = "getVoiceNarration" ->
         {HttpRequest("POST", "/api/voice", Some(VoiceRequest("You wake up.")))}
    [] op = "getGameStart" ->
         {HttpRequest("GET", "/api/game-start", Null)}

\* response.data of a fulfilled request
ResponseData(op) ==
  CASE op = "getDMResponse" ->
         {r \in DMResponses :
            r.dm_narration # "" /\ ~r.game_over /\ r.state_updates # Missing}
    [] op = "getVoiceNarration" ->
         {[audio_base64 |-> "UklGRg", content_type |-> "audio/mpeg"]}
    [] op = "getGameStart" ->
         {[campaign_seed |-> generateCampaignSeed(1)]}

\* what the awaited axios call can reject with
ClientErrors ==
  {[isAxiosError |-> TRUE, message |-> m] :
     m \in TransportFailures \cup {"Network Error", "Request failed with status code 500"}}
  \cup {[isAxiosError |-> FALSE, message |-> "Converting circular structure to JSON"]}

GameStartFailure(cause) == <<"Failed to get game start: ", cause>>

\* the catch block of an operation: an axios error is wrapped, any other is rethrown
Thrown(op, err) ==
  IF err.isAxiosError
    THEN CASE op = "getDMResponse" -> DMFailure(err.message)
           [] op = "getVoiceNarration" -> VoiceFailure(err.message)
           [] op = "getGameStart" -> GameStartFailure(err.message)
    ELSE <<"", err.message>>

(* an operation is called: it sends its request and awaits *)
clientCall(op, request) ==
  /\ Len(calls) < MaxCalls
  /\ calls' = Append(calls, [op |-> op, requests |-> <<request>>, outcome |-> Null])
  /\ UNCHANGED pageVars

(* the awaited request is fulfilled: the operation returns response.data *)
clientReturned(i, data) ==
  /\ calls[i].outcome = Null
  /\ calls' = [calls EXCEPT ![i].outcome = Some([kind |-> "returned", value |-> data])]
  /\ UNCHANGED pageVars

\* a variant whose catch block sends the request once more before giving up
clientThrewRetries(i, err) ==
  /\ calls[i].outcome = Null
  /\ calls' = IF Len(calls[i].requests) < 2
                THEN [calls EXCEPT ![i].requests = Append(@, @[1])]
                ELSE [calls EXCEPT ![i].outcome =
                        Some([kind |-> "thrown", value |-> Thrown(calls[i].op, err),
                              caught |-> err])]
  /\ UNCHANGED pageVars

(* the awaited request is rejected: the catch block throws *)
clientThrew(i, err) ==
  /\ calls[i].outcome = Null
  /\ calls' = [calls EXCEPT ![i].outcome =
                 Some([kind |-> "thrown", value |-> Thrown(calls[i].op, err),
                       caught |-> err])]
  /\ UNCHANGED pageVars

----------------------------------------------------------------------------
Next ==
  \/ \E name \in Names, class \in Classes : startAdventure(name, class)
  \/ \E text \in CustomTexts : setCustomAction(text)
  \/ \E idx \in 1..3 : SubmitSuggested(idx)
  \/ SubmitCustom
  \/ \E req \in BagToSet(dmInFlight), response \in DMResponses : getDMResponseResolved(req, response)
  \/ \E req \in BagToSet(dmInFlight), cause \in TransportFailures : getDMResponseRejected(req, cause)
  \/ \E req \in BagToSet(voiceInFlight) : playNarrationResolved(req)
  \/ \E req \in BagToSet(voiceInFlight), cause \in TransportFailures : playNarrationRejected(req, cause)
  \/ onended
  \/ skipAudio
  \/ DismissError
  \/ resetGame

Spec == Init /\ [][Next]_vars

(* One adventure played in sequence, every reply drawn from InventoryResponses *)
NextDeltas ==
  \/ startAdventure("", "Rogue")
  \/ \E req \in BagToSet(dmInFlight), response \in InventoryResponses :
       getDMResponseResolved(req, response)
  \/ \E req \in BagToSet(voiceInFlight) : playNarrationResolved(req)
  \/ onended
  \/ SubmitSuggested(1)

SpecDeltas == Init /\ [][NextDeltas]_vars

(* One adventure that is never reset: Next without resetGame *)
NextSession ==
  \/ \E name \in Names, class \in Classes : startAdventure(name, class)
  \/ \E text \in CustomTexts : setCustomAction(text)
  \/ \E idx \in 1..3 : SubmitSuggested(idx)
  \/ SubmitCustom
  \/ \E req \in BagToSet(dmInFlight), response \in DMResponses :
       getDMResponseResolved(req, response)
  \/ \E req \in BagToSet(dmInFlight), cause \in TransportFailures :
       getDMResponseRejected(req, cause)
  \/ \E req \in BagToSet(voiceInFlight) : playNarrationResolved(req)
  \/ \E req \in BagToSet(voiceInFlight), cause \in TransportFailures :
       playNarrationRejected(req, cause)
  \/ onended
  \/ skipAudio
  \/ DismissError

SpecSession == Init /\ [][NextSession]_vars

(* The operations of gameClient called by any caller, in any order *)
NextClient ==
  \/ \E op \in ClientOps : \E request \in ClientRequests(op) : clientCall(op, request)
  \/ \E i \in 1..Len(calls) : \E data \in ResponseData(calls[i].op) : clientReturned(i, data)
  \/ \E i \in 1..Len(calls) : \E err \in ClientErrors : clientThrew(i, err)

SpecClient == Init /\ [][NextClient]_vars

(* The page with one player and replies that all carry narration.  A request
   ends within the client's timeout, by a response or by a failure, and a
   playback that was started ends or is skipped; the player is free to do
   nothing. *)
NarratedResponses ==
  {r \in DMResponses : r.dm_narration # "" /\ r.state_updates # Missing}

DMCompletes ==
  \/ \E req \in BagToSet(dmInFlight), response \in NarratedResponses :
       getDMResponseResolved(req, response)
  \/ \E req \in BagToSet(dmInFlight), cause \in TransportFailures :
       getDMResponseRejected(req, cause)

VoiceCompletes ==
  \/ \E req \in BagToSet(voiceInFlight) : playNarrationResolved(req)
  \/ \E req \in BagToSet(voiceInFlight), cause \in TransportFailures :
       playNarrationRejected(req, cause)

PlaybackStops == onended \/ skipAudio

NextNarrated ==
  \/ startAdventure("", "Rogue")
  \/ SubmitSuggested(1)
  \/ DMCompletes
  \/ VoiceCompletes
  \/ PlaybackStops
  \/ DismissError
  \/ resetGame

SpecNarrated ==
  /\ Init /\ [][NextNarrated]_vars
  /\ WF_vars(DMCompletes)
  /\ WF_vars(VoiceCompletes)
  /\ WF_vars(PlaybackStops)

----------------------------------------------------------------------------
(* Properties *)

Min(a, b) == IF a <= b THEN a ELSE b
Clamp(x, lo, hi) == Min(hi, Max(lo, x))

DMCallFailed(op) == op \in {"dmFailed", "dmMalformed"}

\* C1: whenever a GameState exists its hp lies in 0..20, and right after a
\* successful DM response it is clamp(hp sent + hp_delta, 0, 20).
C1_HpClamped ==
  gameState # Null =>
    /\ Val(gameState).hp \in 0..HpCeiling
    /\ last.op = "dmResponded" =>
         Val(gameState).hp =
           Clamp(Val(last.req).state.hp + Val(last.resp).state_updates.hp_delta,
                 0, HpCeiling)

\* C2: a failed DM call (transport failure, failure reported by the backend,
\* response without state_updates) leaves gameState and dmResponse as they were.
C2_NoPartialCommit ==
  [][DMCallFailed(last'.op) => (gameState' = gameState /\ dmResponse' = dmResponse)]_vars

\* C3: a successful DM response raises the displayed turn_count by exactly 1;
\* failed DM calls, voice calls, audio end and skip leave it unchanged; it
\* never decreases while the session lasts.
C3_TurnCount ==
  [][(gameState # Null /\ ~(last'.op \in {"resetGame", "startAdventure"})) =>
       /\ gameState' # Null
       /\ last'.op = "dmResponded" =>
            Val(gameState').turn_count = Val(gameState).turn_count + 1
       /\ last'.op # "dmResponded" =>
            Val(gameState').turn_count = Val(gameState).turn_count]_vars

\* C4: once a response with game_over = true has been displayed, no action is
\* submitted until resetGame has run.
C4_NoActionAfterGameOver ==
  [][gameOverSeen => last'.op # "handleAction"]_vars

\* C5: at most one backend request (DM or voice) is in flight at any time.
C5_OneRequestInFlight == InFlight <= 1

\* C6: after a reset gameState and dmResponse are null and stay null until
\* startAdventure, whatever request completes meanwhile.
C6_ResetDiscardsSession ==
  [][((gameState = Null /\ dmResponse = Null) /\ last'.op # "startAdventure") =>
       (gameState' = Null /\ dmResponse' = Null)]_vars

\* C7: a successful DM response with empty narration commits the state update,
\* issues no voice request and leaves the action controls enabled.
C7_EmptyNarrationProceeds ==
  [][(last'.op = "dmResponded" /\ Val(last'.resp).dm_narration = "") =>
       /\ gameState' = Some(updatedState(Val(last'.req).state, Val(last'.resp).state_updates))
       /\ voiceInFlight' = voiceInFlight
       /\ ~loading' /\ ~audioPlaying']_vars

\* C8: a failed voice request sets an error, keeps the committed gameState and
\* dmResponse, and leaves the action controls enabled.
C8_VoiceFailureDoesNotBlock ==
  [][last'.op = "voiceFailed" =>
       /\ error' # Null
       /\ gameState' = gameState /\ dmResponse' = dmResponse
       /\ ~loading' /\ ~audioPlaying']_vars

RECURSIVE Kept(_, _)
\* the items of inv that removed does not name, in the order of inv
Kept(inv, removed) ==
  IF inv = <<>> THEN <<>>
  ELSE IF Includes(removed, Head(inv)) THEN Kept(Tail(inv), removed)
  ELSE <<Head(inv)>> \o Kept(Tail(inv), removed)

\* C9: after a successful DM response the inventory is the items held before
\* that inventory_remove does not name, in their order, followed by
\* inventory_add; an item named in both lists is present.
C9_InventoryUpdate ==
  last.op = "dmResponded" =>
    LET before == Val(last.req).state.inventory
        su == Val(last.resp).state_updates
        after == Val(gameState).inventory
    IN /\ after = Kept(before, su.inventory_remove) \o su.inventory_add
       /\ \A i \in 1..Len(su.inventory_add) :
            Includes(su.inventory_remove, su.inventory_add[i]) =>
              Includes(after, su.inventory_add[i])

C9_Witness ==
  /\ last.op = "dmResponded"
  /\ Val(last.req).state.inventory = <<"Sword", "Torch">>
  /\ Val(last.resp).state_updates.inventory_remove = <<"Sword">>
  /\ Val(last.resp).state_updates.inventory_add = <<"Shield">>
  /\ Val(gameState).inventory = <<"Torch", "Shield">>

\* C10: for location and for last_scene separately, an empty string in
\* state_updates keeps the value the state had and a non-empty one replaces it.
C10_EmptyKeepsNonEmptyReplaces ==
  last.op = "dmResponded" =>
    LET before == Val(last.req).state
        su == Val(last.resp).state_updates
        after == Val(gameState)
    IN /\ su.location = "" => after.location = before.location
       /\ su.location # "" => after.location = su.location
       /\ su.last_scene = "" => after.last_scene = before.last_scene
       /\ su.last_scene # "" => after.last_scene = su.last_scene

C10_Witness ==
  /\ last.op = "dmResponded"
  /\ Val(last.req).state.location = "Cave"
  /\ Val(last.req).state.last_scene = ""
  /\ Val(last.resp).state_updates.location = ""
  /\ Val(last.resp).state_updates.last_scene = "Fell into a cave"
  /\ Val(gameState).location = "Cave"
  /\ Val(gameState).last_scene = "Fell into a cave"

\* a message is non-empty when its prefix or its cause is
NonEmptyMessage(message) == message[1] # "" \/ message[2] # ""

\* C11: after a failed DM call, of startAdventure or of handleAction, the
\* error is set to a non-empty message, loading is false and the error is displayed.
C11_FailureShowsError ==
  DMCallFailed(last.op) =>
    /\ error # Null
    /\ NonEmptyMessage(Val(error))
    /\ ~loading
    /\ ErrorShown

C11_Witness ==
  /\ last.op = "dmFailed"
  /\ sessions = 1
  /\ gameState # Null /\ Val(gameState).turn_count = 1
  /\ dmResponse # Null
  /\ error = Some(DMFailure("timeout of 60000ms exceeded"))
  /\ ~loading

\* C12: from every state reached by a failed DM call a state in which an
\* action can be submitted is reachable without a reset.  Without a reset the
\* game view changes only through its enabled controls, a request in flight
\* or audio that plays or counts as playing, so such a state has one of these
\* (or shows the start screen).
C12_RetryReachable ==
  DMCallFailed(last.op) =>
    \/ ControlsEnabled
    \/ ~GameViewShown
    \/ InFlight > 0
    \/ audioPlaying
    \/ audioEl = "playing"

\* C13: startAdventure constructs a GameState with hp = 20, turn_count = 0 and
\* an empty inventory whatever happened before, and the request it issues
\* carries exactly that state and no player action.
C13_FreshState ==
  last.op = "startAdventure" =>
    /\ gameState # Null
    /\ Val(gameState).hp = 20
    /\ Val(gameState).turn_count = 0
    /\ Val(gameState).inventory = <<>>
    /\ Val(last.req).state = Val(gameState)
    /\ Val(last.req).player_action = Null
    /\ BagIn(Val(last.req), dmInFlight)

C13_Witness ==
  /\ last.op = "startAdventure"
  /\ sessions = 2
  /\ \E r \in BagToSet(dmInFlight) :
       r.player_action # Null /\ r.state.turn_count = 1 /\ r.state.hp # 20
  /\ Val(gameState).hp = 20 /\ Val(gameState).turn_count = 0

\* C14: between startAdventure and the next resetGame the campaign_seed,
\* player_name and player_class of the displayed GameState do not change.
C14_IdentityStable ==
  [][(gameState # Null /\ ~(last'.op \in {"resetGame", "startAdventure"})) =>
       /\ gameState' # Null
       /\ Val(gameState').campaign_seed = Val(gameState).campaign_seed
       /\ Val(gameState').player_name = Val(gameState).player_name
       /\ Val(gameState').player_class = Val(gameState).player_class]_vars

\* C15: skipAudio leaves audioPlaying = false and loading = false in one step,
\* changes none of gameState, dmResponse and error, and leaves no playback
\* whose end is still to come.
C15_SkipUnblocks ==
  [][last'.op = "skipAudio" =>
       /\ ~audioPlaying' /\ ~loading'
       /\ gameState' = gameState /\ dmResponse' = dmResponse /\ error' = error
       /\ audioEl' = "paused"]_vars

C15_Witness ==
  /\ last.op = "skipAudio"
  /\ sessions = 1
  /\ ControlsEnabled
  /\ audioEl = "paused"

\* the text an operation puts before the message of a transport error
FailurePrefix(op) ==
  CASE op = "getDMResponse" -> "Failed to get DM response: "
    [] op = "getVoiceNarration" -> "Failed to get voice narration: "
    [] op = "getGameStart" -> "Failed to get game start: "

\* C16: every call of getDMResponse, getVoiceNarration and getGameStart sends
\* exactly one HTTP request and never a second one, ends in exactly one of a
\* returned response body and a thrown failure, which then stays as it is,
\* and throws a transport error as one message made of the operation's
\* prefix and the error's message.
C16_OneRequestOneOutcome ==
  [][\A i \in 1..Len(calls') :
       LET call == calls'[i]
       IN /\ Len(call.requests) = 1
          /\ call.requests[1] \in ClientRequests(call.op)
          /\ call.outcome # Null =>
               /\ Val(call.outcome).kind \in {"returned", "thrown"}
               /\ Val(call.outcome).kind = "returned" =>
                    Val(call.outcome).value \in ResponseData(call.op)
               /\ (Val(call.outcome).kind = "thrown" /\ Val(call.outcome).caught.isAxiosError) =>
                    Val(call.outcome).value =
                      <<FailurePrefix(call.op), Val(call.outcome).caught.message>>
          /\ (i <= Len(calls) /\ calls[i].outcome # Null) => call = calls[i]]_vars

C16_Witness ==
  /\ Len(calls) = 3
  /\ calls[1].op = "getGameStart" /\ calls[1].outcome # Null
  /\ Val(calls[1].outcome).kind = "thrown"
  /\ Val(calls[1].outcome).value = <<"Failed to get game start: ", "Network Error">>
  /\ calls[2].op = "getVoiceNarration" /\ calls[2].outcome # Null
  /\ Val(calls[2].outcome).kind = "returned"
  /\ calls[3].op = "getDMResponse" /\ calls[3].outcome # Null
  /\ Val(calls[3].outcome).kind = "thrown"
  /\ Val(calls[3].outcome).value = <<"Failed to get DM response: ", "timeout of 60000ms exceeded">>

\* C17: no item name occurs twice in the inventory, also after a DM response
\* that adds an item already held or that names one item twice.
C17_InventoryIsSet ==
  gameState # Null =>
    \A i, j \in 1..Len(Val(gameState).inventory) :
      i # j => Val(gameState).inventory[i] # Val(gameState).inventory[j]

\* C18: a DM response whose inventory_remove names an item that is not held
\* is taken as successful: no error is set, the response is displayed, the
\* inventory is what removing the held entries alone gives, and hp, location,
\* last_scene and turn_count are updated as by any other response.
C18_AbsentRemoveIgnored ==
  (/\ last.resp # Null
   /\ Val(last.resp).state_updates # Missing
   /\ \E i \in 1..Len(Val(last.resp).state_updates.inventory_remove) :
        ~Includes(Val(last.req).state.inventory,
                  Val(last.resp).state_updates.inventory_remove[i]))
  =>
    LET before == Val(last.req).state
        su == Val(last.resp).state_updates
        after == Val(gameState)
        held == SelectSeq(su.inventory_remove, LAMBDA item : Includes(before.inventory, item))
    IN /\ last.op = "dmResponded"
       /\ error = Null
       /\ dmResponse = last.resp
       /\ after.inventory = Kept(before.inventory, held) \o su.inventory_add
       /\ after.hp = Max(0, before.hp + su.hp_delta)
       /\ after.location = (IF su.location = "" THEN before.location ELSE su.location)
       /\ after.last_scene = (IF su.last_scene = "" THEN before.last_scene ELSE su.last_scene)
       /\ after.turn_count = before.turn_count + 1

C18_Witness ==
  /\ last.op = "dmResponded"
  /\ Val(last.req).state.inventory = <<"Shield">>
  /\ Val(last.resp).state_updates.inventory_remove = <<"Sword">>
  /\ Val(last.resp).state_updates.inventory_add = <<"Sword", "Torch">>
  /\ Val(last.resp).state_updates.location = "Cave"
  /\ Val(gameState).inventory = <<"Shield", "Sword", "Torch">>
  /\ Val(gameState).location = "Cave"
  /\ Val(gameState).hp = 16
  /\ error = Null

\* C19: a DM request that carries a player action carries the displayed
\* GameState, and that state is the one the most recent successful DM response
\* of the session produced.  gameState is assigned by startAdventure, with
\* turn_count 0, and by a successful response, with a turn_count of at least
\* 1, so the state of such a request has a turn_count of at least 1.
C19_ActionSendsCommittedState ==
  last.op = "handleAction" =>
    /\ Val(last.req).player_action # Null
    /\ BagIn(Val(last.req), dmInFlight)
    /\ Val(last.req).state = Val(gameState)
    /\ Val(gameState).turn_count >= 1

\* C20: after a successful DM response with non-empty narration, the voice
\* call returning or failing and the playback ending or being skipped, a state
\* with loading = false and audioPlaying = false is reached.
C20_NarratedTurnSettles ==
  (last.op = "dmResponded" /\ Val(last.resp).dm_narration # "")
    ~> (~loading /\ ~audioPlaying)

\* C21: in every reachable state a non-null error implies loading = false.
C21_ErrorNotHiddenByLoading == error # Null => ~loading

C21_Witness ==
  /\ last.op = "voiceFailed"
  /\ error = Some(VoiceFailure("timeout of 60000ms exceeded"))
  /\ ~loading
  /\ InFlight > 0
  /\ GameViewShown

\* C22: a DM response with game_over = true is committed like any other: it
\* is displayed, its state_updates are applied to the state of its request,
\* turn_count grows by 1 and a non-empty narration is sent to the voice
\* endpoint; the state it produces shows the Game Over panel and no action panel.
C22_GameOverCommitted ==
  [][(/\ last'.resp # Null
      /\ Val(last'.resp).game_over
      /\ Val(last'.resp).state_updates # Missing)
     =>
       LET before == Val(last'.req).state
           response == Val(last'.resp)
           su == response.state_updates
       IN /\ last'.op = "dmResponded"
          /\ dmResponse' = Some(response)
          /\ gameState' =
               Some([before EXCEPT
                       !.hp = Max(0, before.hp + su.hp_delta),
                       !.inventory = Kept(before.inventory, su.inventory_remove)
                                       \o su.inventory_add,
                       !.location = IF su.location = "" THEN before.location ELSE su.location,
                       !.last_scene = IF su.last_scene = "" THEN before.last_scene
                                      ELSE su.last_scene,
                       !.turn_count = before.turn_count + 1])
          /\ voiceInFlight' =
               IF response.dm_narration = "" THEN voiceInFlight
               ELSE voiceInFlight (+) SetToBag({[text |-> response.dm_narration]})
          /\ GameOverPanelShown'
          /\ ~ActionPanelsShown']_vars

C22_Witness ==
  /\ last.op = "dmResponded"
  /\ Val(last.resp).game_over
  /\ Val(last.resp).dm_narration = "You wake up."
  /\ Val(last.req).player_action # Null
  /\ Val(gameState).turn_count = 2
  /\ Val(gameState).location = "Cave"
  /\ BagIn([text |-> "You wake up."], voiceInFlight)
  /\ GameOverPanelShown

\* C23: while a response is displayed, whether actions can be submitted is
\* decided by its game_over flag alone: with game_over = false the action
\* panels are shown and, nothing loading or playing, enabled, also at hp = 0;
\* with game_over = true the Game Over panel replaces them, also at hp > 0;
\* and an action is submitted only under a response with game_over = false.
C23_GameOverByFlagOnly ==
  (gameState # Null /\ dmResponse # Null) =>
    /\ ~Val(dmResponse).game_over =>
         /\ ActionPanelsShown /\ ~GameOverPanelShown
         /\ ~(loading \/ audioPlaying) => ControlsEnabled
    /\ Val(dmResponse).game_over =>
         /\ GameOverPanelShown /\ ~ActionPanelsShown /\ ~ControlsEnabled
         /\ last.op # "handleAction"

C23_Witness ==
  /\ last.op = "handleAction"
  /\ Val(last.req).state.hp = 0
  /\ Val(gameState).hp = 0
  /\ ~Val(dmResponse).game_over
  /\ sessions = 1

\* C24: in a session that is never reset turn_count is the number of
\* successful DM responses since startAdventure: it is 0 after startAdventure,
\* a successful response adds 1 and nothing else changes it, so it is 1 after
\* the opening response; and every request that carries a player action is
\* sent with a turn_count of at least 1.
C24_TurnCountsResponses ==
  [][/\ last'.op = "startAdventure" => Val(gameState').turn_count = 0
     /\ gameState # Null =>
          /\ gameState' # Null
          /\ Val(gameState').turn_count =
               Val(gameState).turn_count + (IF last'.op = "dmResponded" THEN 1 ELSE 0)
     /\ (last'.op = "dmResponded" /\ Val(last'.req).player_action = Null) =>
          Val(gameState').turn_count = 1
     /\ last'.op = "handleAction" =>
          /\ Val(last'.req).player_action # Null
          /\ Val(last'.req).state.turn_count >= 1]_vars

====
